---- MODULE Spec2Model ----
(***************************************************************************)
(* Model of the Modbus TCP scanner (modbus_scan.py): the parallel probing  *)
(* of host:port pairs, the sequential decoding of points and the           *)
(* sequential discovery of readable blocks, against devices whose replies  *)
(* are chosen nondeterministically at every request.                       *)
(*                                                                         *)
(* The smoke test of the device simulator (smoke_test.py) is a second       *)
(* program with variables of its own (SpecSmoke).                          *)
(*                                                                         *)
(* Spec is the whole of main; SpecPoints is its points phase and SpecSweep *)
(* one call of discover_readable, each started in the state main is in     *)
(* after a scan that accepted one port.  --dump is off (its default), so   *)
(* dump_values is never called; device_id and the timeouts do not appear.  *)
(***************************************************************************)
EXTENDS Integers, Sequences, FiniteSets, TLC

\* ---------------------------------------------------------------- bounds
MaxBlocks == 2      \* blocks of the --scan-range of a run of the whole pipeline
MaxPoints == 2      \* points of the longest points.json of the points phase alone
MaxSweep == 3       \* blocks of the longest --scan-range of one sweep of one or two spaces
AllBlocks == 1      \* blocks of the longest --scan-range of one sweep in mode "all"
MaxHr == 2          \* entries of the longest --hr-offsets and --hr-values of the smoke test
MaxAbove == 3       \* display addresses tried above the last address of each band
MaxReads == 4       \* block reads of one sweep whose --step may be zero or negative

\* ------------------------------------------------------ program constants
DefaultPortA == 502      \* --ports default "1502,502"
DefaultPortB == 1502
DefaultWorkers == 64     \* --workers default
DefaultStep == 10        \* --step default

\* ------------------------------------------------------- the environment
\* What one request to a device can end in: a reply carrying data, a
\* well-formed exception response (isError()), ModbusIOException (no
\* response), or any other exception raised by the client.
Outcomes == {"ok", "fault", "noresp", "exc"}

Hosts == {"127.0.0.1"}
Ports == {DefaultPortA, DefaultPortB}
Pairs == Hosts \X Ports

VARIABLES
    args,        \* the parsed command line (and the loaded points.json)
    pc,          \* where main is
    device,      \* the servers behind the ports: the words their registers may hold
                 \* and the exception codes their fault replies may carry
    probe,       \* per host:port pair, the probe_modbus worker: pc, client, result, and
                 \* how tcp_open and connect() ended
    consumed,    \* futures whose result main has taken out of as_completed
    candidates,  \* main: the accepted (host, port) list
    ci,          \* points phase: index into candidates
    pi,          \* points phase: index into points
    di,          \* discovery phase: index into candidates
    kinds,       \* discover_readable: the requested spaces, in order
    hits,        \* discover_readable: kind -> list of block starts read without error
    errors,      \* discover_readable: kind -> counter
    total_hits,  \* discover_readable: hits over all kinds
    addr,        \* discover_readable: the block start of the while loop
    ki,          \* discover_readable: index of the for loop over kinds
    d,           \* main: candidate index -> what discover_readable returned
    si,          \* main: index of the sample loop over hits.items()
    client,      \* the ModbusTcpClient of the sequential phase: "none", "created", "connected", "closed"
    reads,       \* every request issued, in order, with how it ended (and, in the
                 \* points phase, the index of the point it was issued for)
    out,         \* what main printed, in order
    \* smoke_test.py
    sargs,       \* smoke test: the parsed command line
    server,      \* smoke test: what listens on the port, "any" server or the simulator
    spc,         \* smoke test: where main is
    results,     \* smoke test: the TestResult list (name, ok)
    status,      \* smoke test: <<>> while running, then <<the exit status>>
    sclient,     \* smoke test: the ModbusTcpClient: "none", "created", "connected", "closed"
    slog,        \* smoke test: every read and write issued, in order
    rrwr         \* smoke test: <<rr, wr>> as test_unmapped_illegal_address_code2 received them

smokeVars == <<sargs, server, spc, results, status, sclient, slog, rrwr>>

vars == <<args, device, pc, probe, consumed, candidates, ci, pi, di, kinds, hits, errors,
          total_hits, addr, ki, d, si, client, reads, out, smokeVars>>

pointVars == <<ci, pi>>
discVars == <<di, kinds, hits, errors, total_hits, addr, ki, d, si>>
scanVars == <<probe, consumed, candidates>>

Last(s) == s[Len(s)]

\* ------------------------------------------------------ decoding helpers
Pow2(n) == 2 ^ n

\* to_int16 without the sign test
to_int16_unsigned(v) == v % 65536

to_int16(v) ==
    LET w == v % 65536
    IN  IF (w \div 32768) % 2 = 1 THEN w - 65536 ELSE w

to_uint16(v) == v % 65536

get_bit(v, bit) == IF (v \div Pow2(bit)) % 2 # 0 THEN 1 ELSE 0

\* get_bitfield with the mask applied before the shift
get_bitfield_mask_first(v, start, length) == (v % Pow2(length)) \div Pow2(start)

get_bitfield(v, start, length) == (v \div Pow2(start)) % Pow2(length)

\* ------------------------------------------- Niagara-style normalization
\* normalize_address with the bands based at 30000, 40000, 10000 and 0
normalize_address_from_zero(kind, address, niagara) ==
    IF ~niagara THEN <<kind, address>>
    ELSE LET k == IF kind = "coil" THEN "coils" ELSE kind
         IN  IF k = "input" /\ 30001 <= address /\ address <= 39999
                 THEN <<"input", address - 30000>>
             ELSE IF k = "holding" /\ 40001 <= address /\ address <= 49999
                 THEN <<"holding", address - 40000>>
             ELSE IF k = "discrete" /\ 10001 <= address /\ address <= 19999
                 THEN <<"discrete", address - 10000>>
             ELSE IF k = "coils"
                 THEN IF 1 <= address /\ address <= 9999
                          THEN <<"coils", address>>
                          ELSE <<"coils", address>>
             ELSE <<k, address>>

\* normalize_address with every coil address from 1 on mapped downward
normalize_address_no_upper(kind, address, niagara) ==
    IF ~niagara THEN <<kind, address>>
    ELSE LET k == IF kind = "coil" THEN "coils" ELSE kind
         IN  IF k = "input" /\ 30001 <= address /\ address <= 39999
                 THEN <<"input", address - 30001>>
             ELSE IF k = "holding" /\ 40001 <= address /\ address <= 49999
                 THEN <<"holding", address - 40001>>
             ELSE IF k = "discrete" /\ 10001 <= address /\ address <= 19999
                 THEN <<"discrete", address - 10001>>
             ELSE IF k = "coils"
                 THEN IF 1 <= address
                          THEN <<"coils", address - 1>>
                          ELSE <<"coils", address>>
             ELSE <<k, address>>

normalize_address(kind, address, niagara) ==
    IF ~niagara THEN <<kind, address>>
    ELSE LET k == IF kind = "coil" THEN "coils" ELSE kind
         IN  IF k = "input" /\ 30001 <= address /\ address <= 39999
                 THEN <<"input", address - 30001>>
             ELSE IF k = "holding" /\ 40001 <= address /\ address <= 49999
                 THEN <<"holding", address - 40001>>
             ELSE IF k = "discrete" /\ 10001 <= address /\ address <= 19999
                 THEN <<"discrete", address - 10001>>
             ELSE IF k = "coils"
                 THEN IF 1 <= address /\ address <= 9999
                          THEN <<"coils", address - 1>>
                          ELSE <<"coils", address>>
             ELSE <<k, address>>

\* ----------------------------------------------------- the point decoder
\* p.get(field, default) of a points.json entry
Get(p, field, default) == IF field \in DOMAIN p THEN p[field] ELSE default

\* One request as the log keeps it
Request(kind, offset, count) == [kind |-> kind, addr |-> offset, count |-> count]

\* What a call of read_point_decoded does: the requests it issues (io), the
\* exception it lets escape (raised) and, when none, the tuple it returns.
Returned(io, name, ok, o) ==
    [io |-> io, raised |-> "none", ret |-> [name |-> name, ok |-> ok, out |-> o]]

Raised(io, what) == [io |-> io, raised |-> what]

\* ReadOne without the isError() test: a fault reply is decoded like data
ReadOneUnchecked(io, name, resp, decoded) ==
    CASE resp.outcome = "noresp" -> Raised(io, "ModbusIOException")
      [] resp.outcome = "exc"    -> Raised(io, "Exception")
      [] OTHER                   -> decoded

\* _read(client, kind, off, 1, device_id) and the isError() test that follows
\* it: resp is the device's answer to that one request, decoded what the
\* branch makes of the word or bit of a data reply.
ReadOne(io, name, resp, decoded) ==
    CASE resp.outcome = "noresp" -> Raised(io, "ModbusIOException")
      [] resp.outcome = "exc"    -> Raised(io, "Exception")
      [] resp.outcome = "fault"  -> Returned(io, name, FALSE, [exception_code |-> resp.code])
      [] OTHER                   -> decoded

\* DecodeBits with the bitfield looked at before the bit
DecodeBitsFieldFirst(io, name, p, kind, off, raw) ==
    IF "bitfield" \in DOMAIN p
    THEN LET start == p.bitfield.start
             length == p.bitfield.len
         IN  IF ~(0 <= start /\ start <= 15) \/ ~(1 <= length /\ length <= 16)
                \/ start + length > 16
             THEN Returned(io, name, FALSE, [invalid |-> "bitfield"])
             ELSE LET val == get_bitfield(raw, start, length)
                      enum_map == Get(p, "enum", <<>>)
                  IN  Returned(io, name, TRUE,
                          IF val \in DOMAIN enum_map
                          THEN [kind |-> kind, offset |-> off, raw_u16 |-> raw,
                                bitfield |-> <<start, length>>, value |-> val,
                                label |-> enum_map[val]]
                          ELSE [kind |-> kind, offset |-> off, raw_u16 |-> raw,
                                bitfield |-> <<start, length>>, value |-> val])
    ELSE LET b == p.bit
         IN  IF ~(0 <= b /\ b <= 15)
             THEN Returned(io, name, FALSE, [invalid |-> "bit index"])
             ELSE Returned(io, name, TRUE,
                      [kind |-> kind, offset |-> off, raw_u16 |-> raw, bit |-> b,
                       value |-> get_bit(raw, b)])

DecodeBits(io, name, p, kind, off, raw) ==
    IF "bit" \in DOMAIN p
    THEN LET b == p.bit
         IN  IF ~(0 <= b /\ b <= 15)
             THEN Returned(io, name, FALSE, [invalid |-> "bit index"])
             ELSE Returned(io, name, TRUE,
                      [kind |-> kind, offset |-> off, raw_u16 |-> raw, bit |-> b,
                       value |-> get_bit(raw, b)])
    ELSE LET start == p.bitfield.start
             length == p.bitfield.len
         IN  IF ~(0 <= start /\ start <= 15) \/ ~(1 <= length /\ length <= 16)
                \/ start + length > 16
             THEN Returned(io, name, FALSE, [invalid |-> "bitfield"])
             ELSE LET val == get_bitfield(raw, start, length)
                      enum_map == Get(p, "enum", <<>>)
                      base == [kind |-> kind, offset |-> off, raw_u16 |-> raw,
                               bitfield |-> <<start, length>>, value |-> val]
                  IN  Returned(io, name, TRUE,
                          IF val \in DOMAIN enum_map
                          THEN [kind |-> kind, offset |-> off, raw_u16 |-> raw,
                                bitfield |-> <<start, length>>, value |-> val,
                                label |-> enum_map[val]]
                          ELSE base)

DecodeScaled(io, name, p, kind, off, raw_u16) ==
    LET dt == Get(p, "dataType", "uint16")
        scale == Get(p, "scale", 1)
        offset == Get(p, "offset", 0)
        raw == IF dt = "int16" THEN to_int16(raw_u16) ELSE to_uint16(raw_u16)
    IN  \* the dict literal names "offset" twice: the later entry (the
        \* additive offset) is the one the dict keeps
        Returned(io, name, TRUE,
            [kind |-> kind, raw |-> raw, raw_u16_hex |-> raw_u16,
             scaled |-> raw * scale + offset, unit |-> Get(p, "unit", ""),
             scale |-> scale, offset |-> offset])

\* PointRequest asking for a pair of units
PointRequestPair(kind, off) == <<Request(kind, off, 2)>>

\* The requests of one call: _read(client, kind, off, 1, device_id)
PointRequest(kind, off) == <<Request(kind, off, 1)>>

\* DecodeMode with the packed fields tested before the address space
DecodeModeFieldsFirst(p, kind) ==
    IF "bit" \in DOMAIN p \/ "bitfield" \in DOMAIN p THEN "bits"
    ELSE IF kind \in {"coils", "discrete"} THEN "bool"
    ELSE IF kind \in {"holding", "input"} THEN "scaled"
    ELSE "unsupported"

\* The branch read_point_decoded takes: the if-chain (1), (2), (3) and the
\* final return
DecodeMode(p, kind) ==
    IF kind \in {"holding", "input"} /\ ("bit" \in DOMAIN p \/ "bitfield" \in DOMAIN p)
        THEN "bits"
    ELSE IF kind \in {"coils", "discrete"} THEN "bool"
    ELSE IF kind \in {"holding", "input"} THEN "scaled"
    ELSE "unsupported"

read_point_decoded(p, niagara, resp) ==
    LET name == Get(p, "name", "unnamed")
        k0 == IF p.kind = "coil" THEN "coils"
              ELSE IF p.kind = "discrete_input" THEN "discrete" ELSE p.kind
        n == normalize_address(k0, p.address, niagara)
        kind == n[1]
        off == n[2]
        io == PointRequest(kind, off)
        mode == DecodeMode(p, kind)
        bits == DecodeBits(io, name, p, kind, off, resp.raw)
        bool == Returned(io, name, TRUE,
                    [kind |-> kind, offset |-> off,
                     value |-> IF resp.raw # 0 THEN 1 ELSE 0])
        scaled == DecodeScaled(io, name, p, kind, off, resp.raw)
    IN  CASE mode = "bits"   -> ReadOne(io, name, resp, bits)
          [] mode = "bool"   -> ReadOne(io, name, resp, bool)
          [] mode = "scaled" -> ReadOne(io, name, resp, scaled)
          [] OTHER           -> Returned(<<>>, name, FALSE, [unsupported |-> p])

\* ------------------------------------------------------------ the inputs
None == [py |-> "None"]

\* points.json entries (the docstring's examples, and ill-formed variants)
PScaled == [name |-> "SupplyTemp", kind |-> "input", address |-> 30002,
            dataType |-> "int16", scale |-> 2, offset |-> 1, unit |-> "degC"]
PBit == [name |-> "AlarmPacked", kind |-> "holding", address |-> 40020, bit |-> 3]
PBadBit == [name |-> "BadBit", kind |-> "holding", address |-> 40020, bit |-> 16]
PField == [name |-> "FanMode", kind |-> "holding", address |-> 40021,
           bitfield |-> [start |-> 4, len |-> 3],
           enum |-> (0 :> "off" @@ 1 :> "low" @@ 2 :> "med" @@ 3 :> "high")]
PBadField == [name |-> "BadField", kind |-> "input", address |-> 30021,
              bitfield |-> [start |-> 12, len |-> 5]]
PCoil == [name |-> "EnableCmd", kind |-> "coil", address |-> 1]
PUnsupported == [name |-> "Odd", kind |-> "register", address |-> 7]

PointDefs == {PScaled, PBit, PBadBit, PField, PBadField, PCoil, PUnsupported}

\* Entries that carry the fields of more than one decode mode, or a dataType
\* that is neither int16 nor uint16
PUnsigned == [name |-> "Flow", kind |-> "holding", address |-> 40002, scale |-> 3]
PBitScaled == [name |-> "AlarmScaled", kind |-> "input", address |-> 30020, bit |-> 3,
               dataType |-> "int16", scale |-> 2, offset |-> 1]
PFieldScaled == [name |-> "ModeScaled", kind |-> "holding", address |-> 40021,
                 bitfield |-> [start |-> 4, len |-> 3], dataType |-> "int16",
                 scale |-> 2]
PBoth == [name |-> "BitAndField", kind |-> "holding", address |-> 40022, bit |-> 3,
          bitfield |-> [start |-> 4, len |-> 3]]
PCoilAll == [name |-> "CoilAll", kind |-> "coil", address |-> 2, bit |-> 3,
             bitfield |-> [start |-> 4, len |-> 3], dataType |-> "int16",
             scale |-> 2, offset |-> 1]
PDiscreteAll == [name |-> "DiscreteAll", kind |-> "discrete_input", address |-> 10003,
                 bit |-> 16, dataType |-> "int16", scale |-> 2]
PFloat == [name |-> "Energy", kind |-> "holding", address |-> 40030,
           dataType |-> "float32", scale |-> 2]

PWord == [name |-> "Counter", kind |-> "holding", address |-> 40003,
          dataType |-> "uint16", scale |-> 3, offset |-> 5]

DecodeDefs ==
    PointDefs \cup {PUnsigned, PWord, PBitScaled, PFieldScaled, PBoth, PCoilAll,
                    PDiscreteAll, PFloat}

SeqsUpTo(S, n) == UNION {[1..m -> S] : m \in 0..n}

\* Words a register read can return, and the exception codes of a fault
RawWords == {8, 48}
FaultCodes == {2}
SampleDevice == [words |-> RawWords, codes |-> FaultCodes]

\* A device whose registers also hold the extreme words, and whose fault
\* replies carry one of two exception codes
EdgeDevice == [words |-> {0, 8, 48, 32767, 32768, 65535}, codes |-> {2, 4}]

\* --mode, as argparse restricts it
Modes == {"holding", "input", "coils", "discrete", "both", "all"}

Args(points, cfg_points, discover, mode, start, end, step, stop_after_hits, niagara, show_errors) ==
    [points |-> points, cfg_points |-> cfg_points, discover |-> discover,
     mode |-> mode, start |-> start, end |-> end, step |-> step,
     stop_after_hits |-> stop_after_hits, niagara |-> niagara,
     show_errors |-> show_errors, workers |-> DefaultWorkers]

\* Runs of the whole pipeline: neither phase, points only, discovery only
\* (without and with a hit cap), both
MainArgs ==
    {Args("", <<>>, FALSE, "both", 0, 200, DefaultStep, 30, FALSE, TRUE),
     Args("points.json", <<PBit, PCoil>>, FALSE, "both", 0, 200, DefaultStep, 30, TRUE, FALSE),
     Args("", <<>>, TRUE, "holding", 0, DefaultStep * MaxBlocks - 1, DefaultStep, 0, FALSE, TRUE),
     Args("", <<>>, TRUE, "both", 0, DefaultStep - 1, DefaultStep, 1, FALSE, FALSE),
     Args("points.json", <<PCoil>>, TRUE, "holding", 0, DefaultStep - 1, DefaultStep, 0,
          TRUE, FALSE)}

\* Command lines of the points phase alone
PointsArgs ==
    {Args("points.json", ps, FALSE, "both", 0, 200, DefaultStep, 30, n, FALSE) :
        ps \in SeqsUpTo(PointDefs, MaxPoints) \ {<<>>}, n \in BOOLEAN}

\* Command lines of the points phase over a single point of any shape
DecodeArgs ==
    {Args("points.json", <<p>>, FALSE, "both", 0, 200, DefaultStep, 30, n, FALSE) :
        p \in DecodeDefs, n \in BOOLEAN}

\* Display addresses: each band whole, with the address below it and
\* MaxAbove addresses above it
AddrPoint(kind, a) == [name |-> "P", kind |-> kind, address |-> a]

AddrDefs ==
    {AddrPoint("holding", a) : a \in 40000..(49999 + MaxAbove)}
    \cup {AddrPoint("input", a) : a \in 30000..(39999 + MaxAbove)}
    \cup {AddrPoint("discrete", a) : a \in 10000..(19999 + MaxAbove)}
    \cup {AddrPoint("coils", a) : a \in 0..(9999 + MaxAbove)}

\* Command lines of the points phase over one display address, with --niagara
AddrArgs ==
    {Args("points.json", <<p>>, FALSE, "both", 0, 200, DefaultStep, 30, TRUE, FALSE) :
        p \in AddrDefs}

\* A device whose registers all hold one word
PlainDevice == [words |-> {8}, codes |-> {2}]

\* Command lines of the points phase over one scaled point, signed or unsigned
ScaledArgs ==
    {Args("points.json", <<p>>, FALSE, "both", 0, 200, DefaultStep, 30, TRUE, FALSE) :
        p \in {PScaled, PWord}}

\* The devices whose registers all hold the word w, one for every 16-bit word
WordDevices == {[words |-> {w}, codes |-> {2}] : w \in 0..65535}

\* Packed-bit and bitfield entries: every bit index, and every bitfield that
\* fits a 16-bit word
BitPoint(b) == [name |-> "Bit", kind |-> "holding", address |-> 40020, bit |-> b]

FieldPoint(start, length) ==
    [name |-> "Field", kind |-> "input", address |-> 30021,
     bitfield |-> [start |-> start, len |-> length]]

SelectorDefs ==
    {BitPoint(b) : b \in 0..15}
    \cup {FieldPoint(f[1], f[2]) : f \in {g \in (0..15) \X (1..16) : g[1] + g[2] <= 16}}

\* A device whose registers hold the extreme words and the alternating ones
PatternDevice ==
    [words |-> {0, 1, 8, 48, 21845, 32767, 32768, 43690, 65534, 65535}, codes |-> {2}]

\* Command lines of the points phase over one packed point: every selector,
\* and the two selectors that are run against every word
SelectorArgs ==
    {Args("points.json", <<p>>, FALSE, "both", 0, 200, DefaultStep, 30, TRUE, FALSE) :
        p \in SelectorDefs}

EveryWordArgs ==
    {Args("points.json", <<p>>, FALSE, "both", 0, 200, DefaultStep, 30, TRUE, FALSE) :
        p \in {BitPoint(3), FieldPoint(4, 3)}}

\* Command lines of one discovery sweep: the range holds nb blocks, the last
\* of them starting at end itself (range from 5) or 9 below it (range from 0)
SweepOf(m, w, nb, cap) ==
    Args("", <<>>, TRUE, m, w[1], w[1] + DefaultStep * (nb - 1) + w[2], DefaultStep, cap,
         FALSE, FALSE)

SweepArgs ==
    {SweepOf(m, w, nb, cap) :
        m \in {"holding", "both"}, w \in {<<0, 9>>, <<5, 0>>}, nb \in 0..MaxSweep,
        cap \in {0, 2}}
    \cup {SweepOf("all", <<0, 9>>, nb, cap) : nb \in 1..AllBlocks, cap \in {0, 2}}

\* Command lines of one discovery sweep with any --step argparse accepts
\* (type=int): a negative one, zero, the default. The range is empty
\* (end below start) or holds two blocks of the default size.
StepArgs ==
    {Args("", <<>>, TRUE, m, 0, e, st, cap, FALSE, FALSE) :
        m \in {"holding", "both"}, e \in {-1, 2 * DefaultStep - 1},
        st \in {-DefaultStep, 0, DefaultStep}, cap \in {0, 2}}

\* ------------------------------------------------------- the request log
Logged(phase, cand, req, outcome) ==
    [phase |-> phase, cand |-> cand, kind |-> req.kind, addr |-> req.addr,
     count |-> req.count, outcome |-> outcome]

\* ------------------------------------------------- (1) scan host:port
Running == {p \in Pairs : probe[p].pc \in {"connect", "read"}}

ProbeReturn(p, res, conn, tcp, connect) ==
    probe' = [probe EXCEPT ![p] = [pc |-> "returned", conn |-> conn, res |-> res,
                                   tcp |-> tcp, connect |-> connect]]

\* probe_modbus up to the quick TCP check; a closed port returns None
ProbeTcpOpen(p) ==
    /\ pc = "scan"
    /\ probe[p].pc = "pending"
    /\ Cardinality(Running) < args.workers
    /\ \E tcp_open \in BOOLEAN :
          IF ~tcp_open
          THEN ProbeReturn(p, None, "none", "closed", "not tried")
          ELSE probe' = [probe EXCEPT ![p].pc = "connect", ![p].conn = "created",
                                      ![p].tcp = "open"]
    /\ UNCHANGED <<args, device, smokeVars, pc, consumed, candidates, pointVars, discVars, client, reads, out>>

\* c.connect(): False, an exception, or connected; close() in the finally
ProbeConnect(p) ==
    /\ probe[p].pc = "connect"
    /\ \E connect \in {"ok", "fail", "exc"} :
          CASE connect = "fail" ->
                 ProbeReturn(p, [host |-> p[1], port |-> p[2], ok |-> FALSE,
                                 error |-> "connect failed"], "closed", "open", "fail")
            [] connect = "exc" ->
                 ProbeReturn(p, [host |-> p[1], port |-> p[2], ok |-> FALSE,
                                 error |-> "exception"], "closed", "open", "exc")
            [] OTHER ->
                 probe' = [probe EXCEPT ![p].pc = "read", ![p].conn = "connected",
                                        ![p].connect = "ok"]
    /\ UNCHANGED <<args, device, smokeVars, pc, consumed, candidates, pointVars, discVars, client, reads, out>>

\* ProbeResult with a fault reply to the read of holding register 0 rejected
ProbeResultStrict(p, outcome) ==
    IF outcome = "ok"
    THEN [host |-> p[1], port |-> p[2], ok |-> TRUE, note |-> "responds"]
    ELSE [host |-> p[1], port |-> p[2], ok |-> FALSE, error |-> "no response"]

\* The dict probe_modbus returns after the read of holding register 0
ProbeResult(p, outcome) ==
    CASE outcome = "fault" ->
           [host |-> p[1], port |-> p[2], ok |-> TRUE, note |-> "responds but HR0 err"]
      [] outcome = "ok" ->
           [host |-> p[1], port |-> p[2], ok |-> TRUE, note |-> "responds"]
      [] outcome = "noresp" ->
           [host |-> p[1], port |-> p[2], ok |-> FALSE, error |-> "no response"]
      [] OTHER ->
           [host |-> p[1], port |-> p[2], ok |-> FALSE, error |-> "exception"]

ProbeRead(p) ==
    /\ probe[p].pc = "read"
    /\ \E outcome \in Outcomes :
          /\ reads' = Append(reads, Logged("probe", p, Request("holding", 0, 1), outcome))
          /\ ProbeReturn(p, ProbeResult(p, outcome), "closed", "open", "ok")
    /\ UNCHANGED <<args, device, smokeVars, pc, consumed, candidates, pointVars, discVars, client, out>>

\* Reduce with the accepted list rebuilt from the one result instead of appended to
ReduceOverwrite(p) ==
    /\ pc = "scan"
    /\ probe[p].pc = "returned"
    /\ p \notin consumed
    /\ consumed' = consumed \cup {p}
    /\ LET res == probe[p].res
       IN  IF res = None
           THEN UNCHANGED <<candidates, out>>
           ELSE IF res.ok
           THEN /\ candidates' = <<<<res.host, res.port>>>>
                /\ out' = Append(out, [line |-> "MODBUS UP", cand |-> <<res.host, res.port>>])
           ELSE /\ UNCHANGED candidates
                /\ out' = IF args.show_errors
                          THEN Append(out, [line |-> "NO/ERR", cand |-> <<res.host, res.port>>])
                          ELSE out
    /\ UNCHANGED <<args, device, smokeVars, pc, probe, pointVars, discVars, client, reads>>

\* main: one turn of the as_completed loop
Reduce(p) ==
    /\ pc = "scan"
    /\ probe[p].pc = "returned"
    /\ p \notin consumed
    /\ consumed' = consumed \cup {p}
    /\ LET res == probe[p].res
       IN  IF res = None
           THEN UNCHANGED <<candidates, out>>
           ELSE IF res.ok
           THEN /\ candidates' = Append(candidates, <<res.host, res.port>>)
                /\ out' = Append(out, [line |-> "MODBUS UP", cand |-> <<res.host, res.port>>])
           ELSE /\ UNCHANGED candidates
                /\ out' = IF args.show_errors
                          THEN Append(out, [line |-> "NO/ERR", cand |-> <<res.host, res.port>>])
                          ELSE out
    /\ UNCHANGED <<args, device, smokeVars, pc, probe, pointVars, discVars, client, reads>>

\* main: every future has been taken; the with-block of the pool ends
ScanEnd ==
    /\ pc = "scan"
    /\ consumed = Pairs
    /\ pc' = IF args.points # "" /\ candidates # <<>> THEN "points"
             ELSE IF args.discover /\ candidates # <<>> THEN "discover"
             ELSE "done"
    /\ UNCHANGED <<args, device, smokeVars, scanVars, pointVars, discVars, client, reads, out>>

\* ------------------------------------------- (2) points verify/decoded
\* for host, port in candidates: a new client, connect()
PointsConnect ==
    /\ pc = "points"
    /\ ci <= Len(candidates)
    /\ \E connect \in {"ok", "fail", "exc"} :
          CASE connect = "fail" ->
                 /\ out' = Append(out, [line |-> "connect failed", cand |-> candidates[ci]])
                 /\ client' = "closed"
                 /\ ci' = ci + 1
                 /\ UNCHANGED <<pc, pi>>
            [] connect = "exc" ->
                 /\ client' = "closed"
                 /\ pc' = "crashed"
                 /\ UNCHANGED <<ci, pi, out>>
            [] OTHER ->
                 /\ out' = Append(out, [line |-> "points of", cand |-> candidates[ci]])
                 /\ client' = "connected"
                 /\ pc' = "points_loop"
                 /\ pi' = 1
                 /\ UNCHANGED ci
    /\ UNCHANGED <<args, device, smokeVars, scanVars, discVars, reads>>

\* What the device may answer to the one request of a point
Responses(p) ==
    LET bits == p.kind \in {"coil", "coils", "discrete", "discrete_input"}
    IN  [outcome : {"ok"}, raw : IF bits THEN {0, 1} ELSE device.words, code : {0}]
        \cup [outcome : {"fault"}, raw : {0}, code : device.codes]
        \cup [outcome : {"noresp", "exc"}, raw : {0}, code : {0}]

\* PointStep with a failed point ending the candidate's loop
PointStepAbort(cand, p, resp) ==
    LET r == read_point_decoded(p, args.niagara, resp)
    IN  /\ reads' = reads \o [i \in 1..Len(r.io) |->
                                 Logged("points", cand, r.io[i], resp.outcome)
                                 @@ [point |-> pi, resp |-> resp]]
        /\ CASE r.raised = "none" ->
                  /\ out' = Append(out, [line |-> IF r.ret.ok THEN "point" ELSE "point ERR",
                                         cand |-> cand, point |-> pi,
                                         name |-> r.ret.name, out |-> r.ret.out])
                  /\ pi' = IF r.ret.ok THEN pi + 1 ELSE Len(args.cfg_points) + 1
                  /\ UNCHANGED <<pc, client>>
             [] r.raised = "ModbusIOException" ->
                  /\ out' = Append(out, [line |-> "point NO RESPONSE", cand |-> cand,
                                         point |-> pi, name |-> Get(p, "name", "unnamed")])
                  /\ pi' = pi + 1
                  /\ UNCHANGED <<pc, client>>
             [] OTHER ->
                  /\ client' = "closed"
                  /\ pc' = "crashed"
                  /\ UNCHANGED <<pi, out>>

\* What main does with one point: the call, and the print or the except
PointStep(cand, p, resp) ==
    LET r == read_point_decoded(p, args.niagara, resp)
    IN  /\ reads' = reads \o [i \in 1..Len(r.io) |->
                                 Logged("points", cand, r.io[i], resp.outcome)
                                 @@ [point |-> pi, resp |-> resp]]
        /\ CASE r.raised = "none" ->
                  /\ out' = Append(out, [line |-> IF r.ret.ok THEN "point" ELSE "point ERR",
                                         cand |-> cand, point |-> pi,
                                         name |-> r.ret.name, out |-> r.ret.out])
                  /\ pi' = pi + 1
                  /\ UNCHANGED <<pc, client>>
             [] r.raised = "ModbusIOException" ->
                  /\ out' = Append(out, [line |-> "point NO RESPONSE", cand |-> cand,
                                         point |-> pi, name |-> Get(p, "name", "unnamed")])
                  /\ pi' = pi + 1
                  /\ UNCHANGED <<pc, client>>
             [] OTHER ->
                  /\ client' = "closed"
                  /\ pc' = "crashed"
                  /\ UNCHANGED <<pi, out>>

\* for p in points: one turn
PointRead ==
    /\ pc = "points_loop"
    /\ pi <= Len(args.cfg_points)
    /\ \E resp \in Responses(args.cfg_points[pi]) :
          PointStep(candidates[ci], args.cfg_points[pi], resp)
    /\ UNCHANGED <<args, device, smokeVars, scanVars, ci, discVars>>

\* the points of this candidate are done: close() and the next candidate
PointsNext ==
    /\ pc = "points_loop"
    /\ pi > Len(args.cfg_points)
    /\ client' = "closed"
    /\ ci' = ci + 1
    /\ pc' = "points"
    /\ UNCHANGED <<args, device, smokeVars, scanVars, pi, discVars, reads, out>>

PointsEnd ==
    /\ pc = "points"
    /\ ci > Len(candidates)
    /\ pc' = IF args.discover /\ candidates # <<>> THEN "discover" ELSE "done"
    /\ UNCHANGED <<args, device, smokeVars, scanVars, pointVars, discVars, client, reads, out>>

\* ------------------------------------- (3) discovery of readable blocks
Kinds(mode) ==
    IF mode = "both" THEN <<"holding", "input">>
    ELSE IF mode = "all" THEN <<"holding", "input", "coils", "discrete">>
    ELSE <<mode>>

Range(s) == {s[i] : i \in DOMAIN s}

\* stop_after_hits as main passes it: None for 0 (both are falsy; 0 stands for both)
StopAfterHits == args.stop_after_hits

NoFrame == [k \in {} |-> 0]

\* The dict returned when the hit cap stops the sweep, and the one returned
\* when the while loop has run to its end
CappedResult(h, e) == [ok |-> TRUE, hits |-> h, errors |-> e]

SweptResult(h, e) == [ok |-> TRUE, hits |-> h, errors |-> e]

\* discover_readable is entered: kinds, hits, errors and the client
DiscoverCall ==
    /\ pc = "discover"
    /\ di <= Len(candidates)
    /\ kinds' = Kinds(args.mode)
    /\ hits' = [k \in Range(Kinds(args.mode)) |-> <<>>]
    /\ errors' = [k \in Range(Kinds(args.mode)) |-> 0]
    /\ client' = "created"
    /\ pc' = "disc_connect"
    /\ UNCHANGED <<args, device, smokeVars, scanVars, pointVars, di, total_hits, addr, ki, d, si, reads, out>>

\* DiscoverReturn without the finally block: the client stays as it was
DiscoverReturnNoFinally(result) ==
    /\ d' = Append(d, result)
    /\ UNCHANGED client
    /\ kinds' = <<>>
    /\ hits' = NoFrame
    /\ errors' = NoFrame
    /\ total_hits' = 0
    /\ addr' = 0
    /\ ki' = 1
    /\ pc' = "disc_ret"

\* return from discover_readable: the finally closes the client, the frame is gone
DiscoverReturn(result) ==
    /\ d' = Append(d, result)
    /\ client' = "closed"
    /\ kinds' = <<>>
    /\ hits' = NoFrame
    /\ errors' = NoFrame
    /\ total_hits' = 0
    /\ addr' = 0
    /\ ki' = 1
    /\ pc' = "disc_ret"

DiscoverConnect ==
    /\ pc = "disc_connect"
    /\ \E connect \in {"ok", "fail", "exc"} :
          CASE connect = "fail" ->
                 /\ DiscoverReturn([ok |-> FALSE, error |-> "connect failed"])
            [] connect = "exc" ->
                 /\ client' = "closed"
                 /\ pc' = "crashed"
                 /\ UNCHANGED <<kinds, hits, errors, total_hits, addr, ki, d>>
            [] OTHER ->
                 /\ client' = "connected"
                 /\ total_hits' = 0
                 /\ addr' = args.start
                 /\ ki' = 1
                 /\ pc' = "disc_loop"
                 /\ UNCHANGED <<kinds, hits, errors, d>>
    /\ UNCHANGED <<args, device, smokeVars, scanVars, pointVars, di, si, reads, out>>

\* DiscoverAdvance with "addr += step" inside the for loop
DiscoverAdvanceInner ==
    /\ ki' = IF ki < Len(kinds) THEN ki + 1 ELSE 1
    /\ addr' = addr + args.step
    /\ UNCHANGED <<kinds, d, client, pc>>

\* the end of one turn of "for k in kinds", and "addr += step" after the last
DiscoverAdvance ==
    /\ IF ki < Len(kinds)
       THEN ki' = ki + 1 /\ UNCHANGED addr
       ELSE ki' = 1 /\ addr' = addr + args.step
    /\ UNCHANGED <<kinds, d, client, pc>>

\* CapReached with the cap compared by ">": one hit too late
CapReachedAbove(n) == StopAfterHits # 0 /\ n > StopAfterHits

\* "if stop_after_hits and total_hits >= stop_after_hits", with n the value
\* of total_hits after "total_hits += 1"
CapReached(n) == StopAfterHits # 0 /\ n >= StopAfterHits

\* DiscoverStep with ModbusIOException caught by the broad except clause
DiscoverStepSwallowed(k, outcome) ==
    IF outcome = "ok"
    THEN LET h == [hits EXCEPT ![k] = Append(@, addr)]
         IN  IF CapReached(total_hits + 1)
             THEN DiscoverReturn(CappedResult(h, errors))
             ELSE /\ hits' = h
                  /\ total_hits' = total_hits + 1
                  /\ UNCHANGED errors
                  /\ DiscoverAdvance
    ELSE /\ errors' = [errors EXCEPT ![k] = @ + 1]
         /\ UNCHANGED <<hits, total_hits>>
         /\ DiscoverAdvance

\* the body of "for k in kinds" for the block at addr, given how the read ended
DiscoverStep(k, outcome) ==
    CASE outcome = "ok" ->
           LET h == [hits EXCEPT ![k] = Append(@, addr)]
           IN  IF CapReached(total_hits + 1)
               THEN DiscoverReturn(CappedResult(h, errors))
               ELSE /\ hits' = h
                    /\ total_hits' = total_hits + 1
                    /\ UNCHANGED errors
                    /\ DiscoverAdvance
      [] outcome = "fault" ->
           /\ errors' = [errors EXCEPT ![k] = @ + 1]
           /\ UNCHANGED <<hits, total_hits>>
           /\ DiscoverAdvance
      [] outcome = "noresp" ->
           DiscoverReturn([ok |-> FALSE, error |-> "no response (timeout) during discovery"])
      [] OTHER ->
           /\ errors' = [errors EXCEPT ![k] = @ + 1]
           /\ UNCHANGED <<hits, total_hits>>
           /\ DiscoverAdvance

DiscoverRead ==
    /\ pc = "disc_loop"
    /\ addr <= args.end
    /\ \E outcome \in Outcomes :
          /\ reads' = Append(reads, Logged("discover", candidates[di],
                                           Request(kinds[ki], addr, args.step), outcome))
          /\ DiscoverStep(kinds[ki], outcome)
    /\ UNCHANGED <<args, device, smokeVars, scanVars, pointVars, di, si, out>>

\* "while addr <= end" is over: the full map is returned
DiscoverEnd ==
    /\ pc = "disc_loop"
    /\ addr > args.end
    /\ DiscoverReturn(SweptResult(hits, errors))
    /\ UNCHANGED <<args, device, smokeVars, scanVars, pointVars, di, si, reads, out>>

\* MainDiscovered with a failed discovery ending the loop over the candidates
MainDiscoveredBreak ==
    /\ pc = "disc_ret"
    /\ IF ~Last(d).ok
       THEN /\ out' = Append(out, [line |-> "discovery failed", cand |-> candidates[di],
                                   error |-> Last(d).error])
            /\ pc' = "done"
            /\ UNCHANGED <<di, si>>
       ELSE /\ out' = Append(out, [line |-> "readable map", cand |-> candidates[di],
                                   hits |-> Last(d).hits])
            /\ si' = 1
            /\ pc' = "sample"
            /\ UNCHANGED di
    /\ UNCHANGED <<args, device, smokeVars, scanVars, pointVars, kinds, hits, errors, total_hits, addr, ki,
                   d, client, reads>>

\* main, with d in hand: a failed discovery is printed and skipped
MainDiscovered ==
    /\ pc = "disc_ret"
    /\ IF ~Last(d).ok
       THEN /\ out' = Append(out, [line |-> "discovery failed", cand |-> candidates[di],
                                   error |-> Last(d).error])
            /\ di' = di + 1
            /\ pc' = "discover"
            /\ UNCHANGED si
       ELSE /\ out' = Append(out, [line |-> "readable map", cand |-> candidates[di],
                                   hits |-> Last(d).hits])
            /\ si' = 1
            /\ pc' = "sample"
            /\ UNCHANGED di
    /\ UNCHANGED <<args, device, smokeVars, scanVars, pointVars, kinds, hits, errors, total_hits, addr, ki,
                   d, client, reads>>

\* "show one sample per kind": a new client, connect(), one block read
SampleOutcomes == {"connect failed", "connect exc"} \cup Outcomes

Sample ==
    /\ pc = "sample"
    /\ si <= Len(Kinds(args.mode))
    /\ LET k == Kinds(args.mode)[si]
           lst == Last(d).hits[k]
       IN  IF lst = <<>>
           THEN /\ si' = si + 1
                /\ UNCHANGED <<pc, client, reads, out>>
           ELSE \E o \in SampleOutcomes :
                  /\ client' = "closed"
                  /\ reads' = IF o \in Outcomes
                              THEN Append(reads, Logged("sample", candidates[di],
                                                        Request(k, lst[1], args.step), o))
                              ELSE reads
                  /\ out' = IF o = "ok"
                            THEN Append(out, [line |-> "sample", cand |-> candidates[di],
                                              kind |-> k, addr |-> lst[1]])
                            ELSE out
                  /\ IF o \in {"connect exc", "noresp", "exc"}
                     THEN pc' = "crashed" /\ UNCHANGED si
                     ELSE si' = si + 1 /\ UNCHANGED pc
    /\ UNCHANGED <<args, device, smokeVars, scanVars, pointVars, di, kinds, hits, errors, total_hits, addr,
                   ki, d>>

SampleEnd ==
    /\ pc = "sample"
    /\ si > Len(Kinds(args.mode))
    /\ di' = di + 1
    /\ pc' = "discover"
    /\ UNCHANGED <<args, device, smokeVars, scanVars, pointVars, kinds, hits, errors, total_hits, addr, ki,
                   d, si, client, reads, out>>

DiscoveryEnd ==
    /\ pc = "discover"
    /\ di > Len(candidates)
    /\ pc' = "done"
    /\ UNCHANGED <<args, device, smokeVars, scanVars, pointVars, discVars, client, reads, out>>

\* ------------------------------------------------------ the whole program
\* smoke_test.py is not running
SmokeIdle ==
    /\ sargs = None
    /\ server = "none"
    /\ spc = "idle"
    /\ results = <<>>
    /\ status = <<>>
    /\ sclient = "none"
    /\ slog = <<>>
    /\ rrwr = <<>>

Init ==
    /\ args \in MainArgs
    /\ SmokeIdle
    /\ device = SampleDevice
    /\ pc = "scan"
    /\ probe = [p \in Pairs |-> [pc |-> "pending", conn |-> "none", res |-> None,
                                 tcp |-> "not tried", connect |-> "not tried"]]
    /\ consumed = {}
    /\ candidates = <<>>
    /\ ci = 1
    /\ pi = 1
    /\ di = 1
    /\ kinds = <<>>
    /\ hits = NoFrame
    /\ errors = NoFrame
    /\ total_hits = 0
    /\ addr = 0
    /\ ki = 1
    /\ d = <<>>
    /\ si = 1
    /\ client = "none"
    /\ reads = <<>>
    /\ out = <<>>

Scan ==
    \/ \E p \in Pairs : ProbeTcpOpen(p)
    \/ \E p \in Pairs : ProbeConnect(p)
    \/ \E p \in Pairs : ProbeRead(p)
    \/ \E p \in Pairs : Reduce(p)
    \/ ScanEnd

Points ==
    \/ PointsConnect
    \/ PointRead
    \/ PointsNext
    \/ PointsEnd

Discovery ==
    \/ DiscoverCall
    \/ DiscoverConnect
    \/ DiscoverRead
    \/ DiscoverEnd
    \/ MainDiscovered
    \/ Sample
    \/ SampleEnd
    \/ DiscoveryEnd

Next == Scan \/ Points \/ Discovery

Spec == Init /\ [][Next]_vars

\* The state main is in once the scan has accepted the first port and found
\* the second closed
Accepted == <<"127.0.0.1", DefaultPortA>>
Closed == <<"127.0.0.1", DefaultPortB>>

ScanDoneOn(a, phase, dev) ==
    /\ args = a
    /\ SmokeIdle
    /\ device = dev
    /\ pc = phase
    /\ probe = (Accepted :> [pc |-> "returned", conn |-> "closed",
                             res |-> ProbeResult(Accepted, "ok"),
                             tcp |-> "open", connect |-> "ok"])
               @@ (Closed :> [pc |-> "returned", conn |-> "none", res |-> None,
                              tcp |-> "closed", connect |-> "not tried"])
    /\ consumed = Pairs
    /\ candidates = <<Accepted>>
    /\ ci = 1
    /\ pi = 1
    /\ di = 1
    /\ kinds = <<>>
    /\ hits = NoFrame
    /\ errors = NoFrame
    /\ total_hits = 0
    /\ addr = 0
    /\ ki = 1
    /\ d = <<>>
    /\ si = 1
    /\ client = "none"
    /\ reads = <<Logged("probe", Accepted, Request("holding", 0, 1), "ok")>>
    /\ out = <<[line |-> "MODBUS UP", cand |-> Accepted]>>

ScanDone(a, phase) == ScanDoneOn(a, phase, SampleDevice)

\* The points phase alone, over the point definitions
InitPoints == \E a \in PointsArgs : ScanDone(a, "points")

SpecPoints == InitPoints /\ [][Points]_vars

\* The points phase over one point of any shape, against the device with the
\* extreme words
InitDecode == \E a \in DecodeArgs : ScanDoneOn(a, "points", EdgeDevice)

SpecDecode == InitDecode /\ [][Points]_vars

\* The state main is in once the points phase has connected to the accepted
\* candidate
PointsEntered(a, dev) ==
    /\ args = a
    /\ SmokeIdle
    /\ device = dev
    /\ pc = "points_loop"
    /\ probe = (Accepted :> [pc |-> "returned", conn |-> "closed",
                             res |-> ProbeResult(Accepted, "ok"),
                             tcp |-> "open", connect |-> "ok"])
               @@ (Closed :> [pc |-> "returned", conn |-> "none", res |-> None,
                              tcp |-> "closed", connect |-> "not tried"])
    /\ consumed = Pairs
    /\ candidates = <<Accepted>>
    /\ ci = 1
    /\ pi = 1
    /\ di = 1
    /\ kinds = <<>>
    /\ hits = NoFrame
    /\ errors = NoFrame
    /\ total_hits = 0
    /\ addr = 0
    /\ ki = 1
    /\ d = <<>>
    /\ si = 1
    /\ client = "connected"
    /\ reads = <<Logged("probe", Accepted, Request("holding", 0, 1), "ok")>>
    /\ out = <<[line |-> "MODBUS UP", cand |-> Accepted],
               [line |-> "points of", cand |-> Accepted]>>

\* read_point_decoded over the display addresses
InitAddr == \E a \in AddrArgs : PointsEntered(a, PlainDevice)

SpecAddr == InitAddr /\ [][PointRead]_vars

\* read_point_decoded of a scaled point over the 16-bit words
InitWord == \E a \in ScaledArgs : \E dev \in WordDevices : PointsEntered(a, dev)

SpecWord == InitWord /\ [][PointRead]_vars

\* read_point_decoded of a packed point: every selector over the pattern
\* words, two selectors over every 16-bit word
InitBits ==
    \/ \E a \in SelectorArgs : PointsEntered(a, PatternDevice)
    \/ \E a \in EveryWordArgs : \E dev \in WordDevices : PointsEntered(a, dev)

SpecBits == InitBits /\ [][PointRead]_vars

\* One call of discover_readable, over the sweeps
InitSweep == \E a \in SweepArgs : ScanDone(a, "discover")

Sweep ==
    \/ DiscoverCall
    \/ DiscoverConnect
    \/ DiscoverRead
    \/ DiscoverEnd

SpecSweep == InitSweep /\ [][Sweep]_vars

\* ============================================================ smoke test
\* smoke_test.py: TCP check, connect, four tests, report and exit status.
\* The scanner is not running
ScannerIdle ==
    /\ args = None
    /\ device = SampleDevice
    /\ pc = "idle"
    /\ probe = [p \in Pairs |-> [pc |-> "pending", conn |-> "none", res |-> None,
                                 tcp |-> "not tried", connect |-> "not tried"]]
    /\ consumed = {}
    /\ candidates = <<>>
    /\ ci = 1
    /\ pi = 1
    /\ di = 1
    /\ kinds = <<>>
    /\ hits = NoFrame
    /\ errors = NoFrame
    /\ total_hits = 0
    /\ addr = 0
    /\ ki = 1
    /\ d = <<>>
    /\ si = 1
    /\ client = "none"
    /\ reads = <<>>
    /\ out = <<>>

scannerVars == <<args, device, pc, probe, consumed, candidates, ci, pi, di, kinds, hits,
                 errors, total_hits, addr, ki, d, si, client, reads, out>>

\* The command line: the defaults, with --expect-stopped, the lists of
\* --hr-offsets and --hr-values and --unmapped-read varied
SmokeArgsOf(expect_stopped, hr_offsets, hr_values, unmapped_read) ==
    [expect_stopped |-> expect_stopped, coil_offset |-> 101, bit_scan_start |-> 96,
     bit_scan_count |-> 24, hr_offsets |-> hr_offsets, hr_values |-> hr_values,
     unmapped_read |-> unmapped_read, unmapped_write |-> 20]

SmokeArgs ==
    {SmokeArgsOf(e, [i \in 1..n |-> 8 + 2 * i], [i \in 1..m |-> 333 * i - 210], ur) :
        e \in BOOLEAN, n \in 0..MaxHr, m \in 0..MaxHr, ur \in {11, 12}}

\* The holding offsets the simulated device maps
SimMapped == {10, 12}

\* The simulated device answers every request for a holding offset it does
\* not map with exception code 2; what it answers otherwise is left open
SimAnswers(space, offset, any) ==
    IF space = "holding" /\ offset \notin SimMapped
    THEN {[kind |-> "fault", code |-> 2, value |-> 0]}
    ELSE any

\* What a request can end in: a data reply or acknowledgement carrying one
\* of values, an error response (isError()) with exception code 2 or 4 or
\* with no exception_code attribute (code 0), or an exception raised by the
\* client.
SmokeRaise == [kind |-> "raise", code |-> 0, value |-> 0]

SmokeAnswers(space, offset, values) ==
    LET any == [kind : {"data"}, code : {0}, value : values]
               \cup [kind : {"fault"}, code : {0, 2, 4}, value : {0}]
               \cup {SmokeRaise}
    IN  IF server = "sim" THEN SimAnswers(space, offset, any) ELSE any

is_exception(resp) == resp.kind = "fault"

get_exception_code(resp) == resp.code

SmokeOp(op, space, offset) == [op |-> op, space |-> space, offset |-> offset]

\* What a call of a test function ended in: an exception after so many
\* requests, or a TestResult after all of them
TestRaised(issued) == [raised |-> TRUE, ok |-> FALSE, issued |-> issued]

TestReturned(ok, issued) == [raised |-> FALSE, ok |-> ok, issued |-> issued]

test_coil_toggle(w1, r1, w2, r2) ==
    IF w1 = SmokeRaise THEN TestRaised(1)
    ELSE IF r1 = SmokeRaise THEN TestRaised(2)
    ELSE IF w2 = SmokeRaise THEN TestRaised(3)
    ELSE IF r2 = SmokeRaise THEN TestRaised(4)
    ELSE IF is_exception(w1) \/ is_exception(w2) \/ is_exception(r1) \/ is_exception(r2)
        THEN TestReturned(FALSE, 4)
    ELSE TestReturned(r1.value # 0 /\ ~(r2.value # 0), 4)

test_block_scan_bits(c, dd, count) ==
    IF c = SmokeRaise THEN TestRaised(1)
    ELSE IF dd = SmokeRaise THEN TestRaised(2)
    ELSE IF is_exception(c) \/ is_exception(dd) THEN TestReturned(FALSE, 2)
    ELSE TestReturned(c.value = count /\ dd.value = count, 2)

\* test_holding_write_read from the i-th pair of zip(offsets, values) on,
\* with ok_all as it stands: every way the loop can end
RECURSIVE test_holding_write_read(_, _)
test_holding_write_read(i, ok_all) ==
    IF i > Len(sargs.hr_offsets) THEN {TestReturned(ok_all, 2 * (i - 1))}
    ELSE LET off == sargs.hr_offsets[i]
             val == sargs.hr_values[i]
         IN  UNION {IF w = SmokeRaise THEN {TestRaised(2 * i - 1)}
                    ELSE IF r = SmokeRaise THEN {TestRaised(2 * i)}
                    ELSE IF is_exception(w) \/ is_exception(r)
                        THEN test_holding_write_read(i + 1, FALSE)
                    ELSE test_holding_write_read(i + 1, ok_all /\ r.value = val) :
                      w \in SmokeAnswers("holding", off, {0}),
                      r \in SmokeAnswers("holding", off, {val, val + 1})}

\* UnmappedOk with any exception response taken for the expected one
UnmappedOkAnyCode(rr, wr) == is_exception(rr) /\ is_exception(wr)

\* ok of test_unmapped_illegal_address_code2: both are exception responses
\* with code 2
UnmappedOk(rr, wr) ==
    /\ is_exception(rr) /\ get_exception_code(rr) = 2
    /\ is_exception(wr) /\ get_exception_code(wr) = 2

test_unmapped_illegal_address_code2(rr, wr) ==
    IF rr = SmokeRaise THEN TestRaised(1)
    ELSE IF wr = SmokeRaise THEN TestRaised(2)
    ELSE TestReturned(UnmappedOk(rr, wr), 2)

\* main after a test function: the TestResult is appended and the next test
\* follows, or the except clause records the runtime failure; the finally
\* closes the client when the try block is left
SmokeAfter(name, ops, t, next) ==
    /\ slog' = slog \o SubSeq(ops, 1, t.issued)
    /\ IF t.raised
       THEN /\ results' = Append(results, [name |-> "Smoke test runtime", ok |-> FALSE])
            /\ sclient' = "closed"
            /\ spc' = "report"
       ELSE /\ results' = Append(results, [name |-> name, ok |-> t.ok])
            /\ sclient' = IF next = "report" THEN "closed" ELSE sclient
            /\ spc' = next

\* The quick TCP check, --expect-stopped, and the parsing of the two lists
SmokeTcp ==
    /\ spc = "start"
    /\ \E open \in BOOLEAN :
          IF sargs.expect_stopped
          THEN /\ status' = <<IF ~open THEN 0 ELSE 1>>
               /\ spc' = "exited"
               /\ UNCHANGED sclient
          ELSE IF ~open \/ Len(sargs.hr_offsets) # Len(sargs.hr_values)
          THEN /\ status' = <<1>>
               /\ spc' = "exited"
               /\ UNCHANGED sclient
          ELSE /\ sclient' = "created"
               /\ spc' = "connect"
               /\ UNCHANGED status
    /\ UNCHANGED <<scannerVars, sargs, server, results, slog, rrwr>>

\* SmokeConnect without the raise after a failed connect
SmokeConnectContinue ==
    /\ spc = "connect"
    /\ \E connect \in {"ok", "fail", "exc"} :
          CASE connect = "ok" ->
                 /\ results' = Append(results, [name |-> "Connect", ok |-> TRUE])
                 /\ sclient' = "connected"
                 /\ spc' = "coil"
            [] connect = "fail" ->
                 /\ results' = Append(results, [name |-> "Connect", ok |-> FALSE])
                 /\ sclient' = "created"
                 /\ spc' = "coil"
            [] OTHER ->
                 /\ results' = Append(results, [name |-> "Smoke test runtime", ok |-> FALSE])
                 /\ sclient' = "closed"
                 /\ spc' = "report"
    /\ UNCHANGED <<scannerVars, sargs, server, status, slog, rrwr>>

\* test_connect, and the RuntimeError main raises when it failed
SmokeConnect ==
    /\ spc = "connect"
    /\ \E connect \in {"ok", "fail", "exc"} :
          CASE connect = "ok" ->
                 /\ results' = Append(results, [name |-> "Connect", ok |-> TRUE])
                 /\ sclient' = "connected"
                 /\ spc' = "coil"
            [] connect = "fail" ->
                 /\ results' = <<[name |-> "Connect", ok |-> FALSE],
                                 [name |-> "Smoke test runtime", ok |-> FALSE]>>
                 /\ sclient' = "closed"
                 /\ spc' = "report"
            [] OTHER ->
                 /\ results' = Append(results, [name |-> "Smoke test runtime", ok |-> FALSE])
                 /\ sclient' = "closed"
                 /\ spc' = "report"
    /\ UNCHANGED <<scannerVars, sargs, server, status, slog, rrwr>>

SmokeCoil ==
    /\ spc = "coil"
    /\ LET off == sargs.coil_offset
           ops == <<SmokeOp("write", "coils", off), SmokeOp("read", "coils", off),
                    SmokeOp("write", "coils", off), SmokeOp("read", "coils", off)>>
       IN  \E w1 \in SmokeAnswers("coils", off, {0}), r1 \in SmokeAnswers("coils", off, {0, 1}),
              w2 \in SmokeAnswers("coils", off, {0}), r2 \in SmokeAnswers("coils", off, {0, 1}) :
              SmokeAfter("Coil write/read (single)", ops,
                         test_coil_toggle(w1, r1, w2, r2), "scan")
    /\ UNCHANGED <<scannerVars, sargs, server, status, rrwr>>

SmokeScan ==
    /\ spc = "scan"
    /\ LET start == sargs.bit_scan_start
           count == sargs.bit_scan_count
           ops == <<SmokeOp("read", "coils", start), SmokeOp("read", "discrete", start)>>
       IN  \E c \in SmokeAnswers("coils", start, {count, count - 8}),
              dd \in SmokeAnswers("discrete", start, {count, count - 8}) :
              SmokeAfter("Block scan bits (coils+discretes)", ops,
                         test_block_scan_bits(c, dd, count), "holding")
    /\ UNCHANGED <<scannerVars, sargs, server, status, rrwr>>

SmokeHolding ==
    /\ spc = "holding"
    /\ LET n == Len(sargs.hr_offsets)
           ops == [j \in 1..(2 * n) |->
                     SmokeOp(IF j % 2 = 1 THEN "write" ELSE "read", "holding",
                             sargs.hr_offsets[(j + 1) \div 2])]
       IN  \E t \in test_holding_write_read(1, TRUE) :
              SmokeAfter("Holding write/read (mapped)", ops, t, "unmapped")
    /\ UNCHANGED <<scannerVars, sargs, server, status, rrwr>>

SmokeUnmapped ==
    /\ spc = "unmapped"
    /\ LET ops == <<SmokeOp("read", "holding", sargs.unmapped_read),
                    SmokeOp("write", "holding", sargs.unmapped_write)>>
       IN  \E rr \in SmokeAnswers("holding", sargs.unmapped_read, {0, 16}),
              wr \in SmokeAnswers("holding", sargs.unmapped_write, {0}) :
              /\ rrwr' = <<rr, wr>>
              /\ SmokeAfter("Unmapped registers -> exception code 2", ops,
                            test_unmapped_illegal_address_code2(rr, wr), "report")
    /\ UNCHANGED <<scannerVars, sargs, server, status>>

\* The report, and the exit status
SmokeReport ==
    /\ spc = "report"
    /\ status' = <<IF \A i \in DOMAIN results : results[i].ok THEN 0 ELSE 1>>
    /\ spc' = "exited"
    /\ UNCHANGED <<scannerVars, sargs, server, results, sclient, slog, rrwr>>

InitSmoke ==
    /\ ScannerIdle
    /\ sargs \in SmokeArgs
    /\ server \in {"any", "sim"}
    /\ spc = "start"
    /\ results = <<>>
    /\ status = <<>>
    /\ sclient = "none"
    /\ slog = <<>>
    /\ rrwr = <<>>

Smoke ==
    \/ SmokeTcp
    \/ SmokeConnect
    \/ SmokeCoil
    \/ SmokeScan
    \/ SmokeHolding
    \/ SmokeUnmapped
    \/ SmokeReport

SpecSmoke == InitSmoke /\ [][Smoke]_vars

\* One call of discover_readable with any block size. With a block size
\* below 1 the number of reads has no bound, so the sweep is followed for
\* its first MaxReads reads.
InitStep == \E a \in StepArgs : ScanDone(a, "discover")

DiscoverReadBounded ==
    /\ Len(SelectSeq(reads, LAMBDA r : r.phase = "discover")) < MaxReads
    /\ DiscoverRead

SweepStep ==
    \/ DiscoverCall
    \/ DiscoverConnect
    \/ DiscoverReadBounded
    \/ DiscoverEnd

SpecStep == InitStep /\ [][SweepStep]_vars

\* ================================================================ claims
\* The requests discover_readable issued against candidate c, in order
DiscReads(c) == SelectSeq(reads, LAMBDA r : r.phase = "discover" /\ r.cand = c)

\* The index of candidate c in candidates (and of its result in d)
CandIndex(c) == CHOOSE n \in DOMAIN candidates : candidates[n] = c

\* The addresses, in order, of the requests of rs for kind k that ended in one of outcomes
AddrsOf(rs, k, outcomes) ==
    LET sel == SelectSeq(rs, LAMBDA r : r.kind = k /\ r.outcome \in outcomes)
    IN  [i \in DOMAIN sel |-> sel[i].addr]

CountOf(rs, k, outcomes) == Len(AddrsOf(rs, k, outcomes))

RECURSIVE TotalHits(_, _)
TotalHits(h, ks) == IF ks = <<>> THEN 0 ELSE Len(h[ks[1]]) + TotalHits(h, Tail(ks))

StrictlyAscending(s) == \A i, j \in DOMAIN s : i < j => s[i] < s[j]

\* The number of requests a sweep of the whole range issues
PlannedReads ==
    IF args.end < args.start THEN 0
    ELSE ((args.end - args.start) \div args.step + 1) * Len(Kinds(args.mode))

\* C1: as soon as a block read of discover_readable ends in no response, the
\* run against that candidate is over: no later discovery read is issued
\* against it, the loop is left, and the result is a failure without a hit map.
C1_NoResponseAborts ==
    \A i \in DOMAIN reads :
        (reads[i].phase = "discover" /\ reads[i].outcome = "noresp") =>
            /\ \A j \in (i + 1)..Len(reads) :
                  ~(reads[j].phase = "discover" /\ reads[j].cand = reads[i].cand)
            /\ LET n == CandIndex(reads[i].cand)
               IN  /\ Len(d) >= n
                   /\ ~d[n].ok
                   /\ "hits" \notin DOMAIN d[n]
            /\ (Len(d) = CandIndex(reads[i].cand) => pc # "disc_loop")

\* C1 witness: a sweep was aborted by a no-response after earlier reads, with
\* blocks still unread
C1_Witness ==
    /\ pc = "disc_ret"
    /\ Len(DiscReads(Accepted)) >= 2
    /\ Last(DiscReads(Accepted)).outcome = "noresp"
    /\ Last(DiscReads(Accepted)).addr + args.step <= args.end
    /\ ~Last(d).ok

\* C2 (as claimed): after a sweep that ran to its end (no no-response, cap not
\* reached) the hits of each space are exactly the block starts whose read
\* returned a non-fault response, and its error counter is the number of its
\* reads that returned a fault; with block size 10 over [0,19], a fault at 0
\* and an answer at 10 give holding the hits <<10>>.
C2_HitsAndFaultCount ==
    (pc = "disc_ret" /\ Last(d).ok
       /\ (StopAfterHits = 0 \/ TotalHits(Last(d).hits, Kinds(args.mode)) < StopAfterHits)) =>
        LET rs == DiscReads(candidates[di])
        IN  /\ \A k \in Range(Kinds(args.mode)) :
                  /\ Range(Last(d).hits[k]) = Range(AddrsOf(rs, k, {"ok"}))
                  /\ Last(d).errors[k] = CountOf(rs, k, {"fault"})
            /\ (/\ args.start = 0 /\ args.end = 19 /\ args.step = 10
                /\ AddrsOf(rs, "holding", {"fault"}) = <<0>>
                /\ AddrsOf(rs, "holding", {"ok"}) = <<10>>)
               => Last(d).hits["holding"] = <<10>>

\* C3 (as claimed): a space's error counter counts fault responses only, and a
\* read that raises (no response or any other exception) ends the run with a
\* failure instead of being counted.
C3_FaultsNotConflated ==
    /\ pc = "disc_loop" =>
          \A k \in Range(kinds) :
              errors[k] = CountOf(DiscReads(candidates[di]), k, {"fault"})
    /\ \A i \in DOMAIN reads :
          (reads[i].phase = "discover" /\ reads[i].outcome \in {"noresp", "exc"}) =>
              /\ Len(d) >= CandIndex(reads[i].cand)
              /\ ~d[CandIndex(reads[i].cand)].ok

\* A sweep the hit cap stopped before the whole range was read
StoppedByCap(n) ==
    /\ d[n].ok
    /\ StopAfterHits # 0
    /\ TotalHits(d[n].hits, Kinds(args.mode)) >= StopAfterHits
    /\ Len(DiscReads(candidates[n])) < PlannedReads

\* C4 (as claimed): the result of a sweep stopped by the hit cap is flagged:
\* it is not the dict a sweep of the whole range returns for those hits and
\* error counts.
C4_CappedIsFlagged ==
    \A n \in DOMAIN d :
        StoppedByCap(n) =>
            /\ d[n] # SweptResult(d[n].hits, d[n].errors)
            /\ "capped" \in DOMAIN d[n] \/ "partial" \in DOMAIN d[n]

\* C5: the reads of a sweep are issued block start by block start from start
\* upwards in steps of the block size, never beyond end, and at each block
\* start once per requested space in the declared order; each hit list is
\* strictly ascending; and the hit lists and error counters are functions of
\* the responses received (the same responses give the same result).
SweepOrder(rs) ==
    LET ks == Kinds(args.mode)
        n == Len(ks)
    IN  \A i \in DOMAIN rs :
            /\ rs[i].kind = ks[((i - 1) % n) + 1]
            /\ rs[i].addr = args.start + args.step * ((i - 1) \div n)
            /\ rs[i].addr <= args.end
            /\ rs[i].count = args.step
            /\ i > 1 => rs[i - 1].addr <= rs[i].addr
            /\ i > n => (rs[i - n].kind = rs[i].kind /\ rs[i - n].addr < rs[i].addr)

DeclaredOrder ==
    /\ Kinds("all") = <<"holding", "input", "coils", "discrete">>
    /\ Kinds("both") = <<"holding", "input">>

InvalidDef(p) ==
    LET k == normalize_address(p.kind, p.address, args.niagara)[1]
    IN  /\ k \in {"holding", "input"}
        /\ \/ "bit" \in DOMAIN p /\ ~(p.bit \in 0..15)
           \/ /\ "bitfield" \in DOMAIN p
              /\ \/ ~(p.bitfield.start \in 0..15)
                 \/ ~(p.bitfield.len \in 1..16)
                 \/ p.bitfield.start + p.bitfield.len > 16

PointLineKinds == {"point", "point ERR", "point NO RESPONSE"}

\* What main printed for the points of candidate c, in order
PointLines(c) == SelectSeq(out, LAMBDA l : l.line \in PointLineKinds /\ l.cand = c)

\* The requests the points phase issued against candidate c for its k-th point
PointReads(c, k) ==
    SelectSeq(reads, LAMBDA r : r.phase = "points" /\ r.cand = c /\ r.point = k)

\* C6 (as claimed): an invalid bit index or bitfield is reported as a
\* definition error without any read being issued for that point.
C6_DefinitionErrorBeforeIO ==
    /\ \A i \in DOMAIN reads :
          reads[i].phase = "points" => ~InvalidDef(args.cfg_points[reads[i].point])
    /\ \A j \in DOMAIN out :
          (out[j].line \in PointLineKinds /\ InvalidDef(args.cfg_points[out[j].point])) =>
              /\ out[j].line = "point ERR"
              /\ "invalid" \in DOMAIN out[j].out

\* C7 (as claimed): once a request against a candidate has ended in no
\* response, no later request is issued against that candidate.
C7_NothingAfterNoResponse ==
    \A i, j \in DOMAIN reads :
        (i < j /\ reads[i].outcome = "noresp") => reads[j].cand # reads[i].cand

\* What the requests discover_readable issued against c determine as its result
OwnResult(c) ==
    LET rs == DiscReads(c)
    IN  IF \E i \in DOMAIN rs : rs[i].outcome = "noresp"
            THEN [ok |-> FALSE, error |-> "no response (timeout) during discovery"]
        ELSE IF rs = <<>>
            THEN [ok |-> FALSE, error |-> "connect failed"]
        ELSE SweptResult([k \in Range(Kinds(args.mode)) |-> AddrsOf(rs, k, {"ok"})],
                         [k \in Range(Kinds(args.mode)) |-> CountOf(rs, k, {"fault", "exc"})])

C9_PointErrorsIsolated ==
    /\ candidates = <<Accepted>>
    /\ \A n \in DOMAIN candidates :
          LET lines == PointLines(candidates[n])
          IN  /\ \A k \in DOMAIN lines :
                    /\ lines[k].point = k
                    /\ lines[k].name = args.cfg_points[k].name
                    /\ Len(PointReads(candidates[n], k))
                         = Len(read_point_decoded(args.cfg_points[k], args.niagara,
                                                  [outcome |-> "ok", raw |-> 0, code |-> 0]).io)
                    /\ lines[k].line = "point ERR" =>
                          \/ "exception_code" \in DOMAIN lines[k].out
                          \/ "invalid" \in DOMAIN lines[k].out
                          \/ "unsupported" \in DOMAIN lines[k].out
              /\ (n = ci /\ pc = "points_loop") => Len(lines) = pi - 1
              /\ (n < ci /\ \A j \in DOMAIN out : out[j].line # "connect failed")
                    => Len(lines) = Len(args.cfg_points)

\* C9 witness: the first point got a fault, the second a definition error,
\* and both were read and reported before the run ended
C9_Witness ==
    /\ pc = "done"
    /\ Len(PointLines(Accepted)) = 2
    /\ PointLines(Accepted)[1].line = "point ERR"
    /\ "exception_code" \in DOMAIN PointLines(Accepted)[1].out
    /\ PointLines(Accepted)[2].line = "point ERR"
    /\ "invalid" \in DOMAIN PointLines(Accepted)[2].out
    /\ Len(PointReads(Accepted, 2)) = 1

\* The read of holding register 0 the probe of p issued got a reply
SentinelReplied(p) ==
    \E i \in DOMAIN reads :
        /\ reads[i].phase = "probe" /\ reads[i].cand = p
        /\ reads[i].kind = "holding" /\ reads[i].addr = 0 /\ reads[i].count = 1
        /\ reads[i].outcome \in {"ok", "fault"}

\* C10: a pair whose probe main has taken is in candidates exactly when its
\* port was open, connect() succeeded and the read of holding register 0 got
\* a reply (data or a fault); candidates holds no pair twice and none that was
\* not probed; a closed port gives None and no printed line.
C10_AcceptedIff ==
    /\ \A p \in consumed :
          (\E n \in DOMAIN candidates : candidates[n] = p)
            <=> (probe[p].tcp = "open" /\ probe[p].connect = "ok" /\ SentinelReplied(p))
    /\ \A n, m \in DOMAIN candidates :
          /\ candidates[n] \in consumed
          /\ n # m => candidates[n] # candidates[m]
    /\ \A p \in Pairs :
          probe[p].pc = "returned" =>
              IF probe[p].tcp = "closed"
              THEN /\ probe[p].res = None
                   /\ \A j \in DOMAIN out : out[j].cand # p
              ELSE /\ probe[p].res # None
                   /\ probe[p].res.ok <=> (probe[p].connect = "ok" /\ SentinelReplied(p))

\* C10 witness: both pairs are taken; one was accepted on a fault reply, the
\* other rejected on no response
C10_Witness ==
    /\ consumed = Pairs
    /\ Len(candidates) = 1
    /\ \E i, j \in DOMAIN reads :
          /\ reads[i].phase = "probe" /\ reads[i].cand = candidates[1]
          /\ reads[i].outcome = "fault"
          /\ reads[j].phase = "probe" /\ reads[j].cand # candidates[1]
          /\ reads[j].outcome = "noresp"


\* C11: every connection probe_modbus and discover_readable create is closed
\* once they are left, on every exit path. A probe that has returned after
\* the TCP check passed has closed its client (a closed port returns before
\* any client exists), also when connect() failed or raised; after
\* discover_readable has returned or raised, whether on a failed connect, a
\* full sweep, a hit-cap return or a missing answer, its client is closed.
C11_ConnectionsClosed ==
    /\ \A p \in Pairs :
          /\ probe[p].pc = "returned" =>
                probe[p].conn = IF probe[p].tcp = "open" THEN "closed" ELSE "none"
          /\ probe[p].connect \in {"fail", "exc"} => probe[p].conn = "closed"
    /\ pc = "disc_ret" => client = "closed"
    /\ (d # <<>> /\ pc \notin {"disc_connect", "disc_loop"}) => client = "closed"
    /\ pc = "crashed" => client = "closed"

\* A probe whose connect() failed has closed its client, and the sweep of the
\* accepted candidate has been stopped by the hit cap before its last request
C11_Witness ==
    /\ \E p \in Pairs : probe[p].connect = "fail" /\ probe[p].conn = "closed"
    /\ pc = "disc_ret"
    /\ StopAfterHits # 0
    /\ Last(d).ok
    /\ Len(DiscReads(candidates[di])) < Len(Kinds(args.mode))
    /\ client = "closed"


\* The requests the probe of pair p issued
ProbeReads(p) == SelectSeq(reads, LAMBDA r : r.phase = "probe" /\ r.cand = p)

\* The pairs whose probe has returned a dict with ok set
ProbedOk == {p \in Pairs : /\ probe[p].pc = "returned"
                           /\ probe[p].res # None
                           /\ probe[p].res.ok}

\* C12: the parallel probes share nothing and main alone builds the accepted
\* list. Whatever the interleaving of the workers and of the as_completed
\* loop, every pair is probed at most once (its one sentinel read is issued
\* exactly when its probe got connected), the accepted list holds exactly the
\* pairs whose ok result main has taken, each of them once, and when the scan
\* is over it holds exactly the pairs whose probe returned ok.
C12_AcceptedIsReductionOfResults ==
    /\ \A p \in Pairs :
          /\ Len(ProbeReads(p)) <= 1
          /\ Len(ProbeReads(p)) = 1 <=>
                (probe[p].pc = "returned" /\ probe[p].connect = "ok")
    /\ Range(candidates) = ProbedOk \cap consumed
    /\ Len(candidates) = Cardinality(Range(candidates))
    /\ pc # "scan" => Range(candidates) = ProbedOk

\* Both probes returned ok and main took the result of the pair submitted
\* second (parse_ports sorts the ports) before that of the pair submitted first
C12_Witness ==
    /\ pc # "scan"
    /\ ProbedOk = Pairs
    /\ candidates = <<<<"127.0.0.1", DefaultPortB>>, <<"127.0.0.1", DefaultPortA>>>>


\* The four address spaces, and the one a points.json entry names
FourSpaces == {"holding", "input", "coils", "discrete"}

SpaceOf(p) ==
    IF p.kind = "coil" THEN "coils"
    ELSE IF p.kind = "discrete_input" THEN "discrete" ELSE p.kind

\* read_point_decoded has been called for the k-th point of candidate c: the
\* candidate got connected, and the loop is past the point or broke off in it
PointCalled(c, k) ==
    /\ \E j \in DOMAIN out : out[j].line = "points of" /\ out[j].cand = c
    /\ \/ CandIndex(c) < ci
       \/ k < pi
       \/ pc = "crashed" /\ k = pi

\* C13: for every point of one of the four address spaces, a call of
\* read_point_decoded issues exactly one request, for one unit, against the
\* normalized space at the normalized offset, whatever the decode mode and
\* whatever the call ends in (a value, a fault, a definition error, a missing
\* answer, an exception); before the call no request is issued for the point.
C13_ExactlyOneUnitRead ==
    \A c \in Range(candidates) : \A k \in DOMAIN args.cfg_points :
        LET p == args.cfg_points[k]
            n == normalize_address(SpaceOf(p), p.address, args.niagara)
            rs == PointReads(c, k)
        IN  SpaceOf(p) \in FourSpaces =>
              IF PointCalled(c, k)
              THEN /\ Len(rs) = 1
                   /\ rs[1].kind = n[1]
                   /\ rs[1].addr = n[2]
                   /\ rs[1].count = 1
              ELSE rs = <<>>

\* A point with a bit index out of range has been reported as a definition
\* error after its one request, for one register at the normalized offset
C13_Witness ==
    /\ args.niagara
    /\ args.cfg_points = <<PBadBit>>
    /\ \E j \in DOMAIN out :
          /\ out[j].line = "point ERR"
          /\ "invalid" \in DOMAIN out[j].out
    /\ Len(PointReads(Accepted, 1)) = 1
    /\ PointReads(Accepted, 1)[1].kind = "holding"
    /\ PointReads(Accepted, 1)[1].addr = 19
    /\ PointReads(Accepted, 1)[1].count = 1


\* The lines main printed for the point a request of the points phase belongs to
LinesOfRead(r) ==
    {j \in DOMAIN out : /\ out[j].line \in PointLineKinds
                        /\ out[j].cand = r.cand
                        /\ out[j].point = r.point}

\* C14: when the device answers the one request of a point with a protocol
\* fault, the point is reported as a failure that carries that fault reply
\* and nothing else: no value, no scaled value, no bit; this in every decode
\* mode (packed bit, bitfield, direct boolean, scaled).
C14_FaultSurfacedVerbatim ==
    \A i \in DOMAIN reads :
        (reads[i].phase = "points" /\ reads[i].outcome = "fault") =>
            /\ LinesOfRead(reads[i]) # {}
            /\ \A j \in LinesOfRead(reads[i]) :
                  /\ out[j].line = "point ERR"
                  /\ out[j].out = [exception_code |-> reads[i].resp.code]

\* The request of a bitfield point that also carries a scale was answered
\* with exception code 4, and the point is reported as failed with that code
C14_Witness ==
    /\ args.cfg_points = <<PFieldScaled>>
    /\ Len(PointReads(Accepted, 1)) = 1
    /\ PointReads(Accepted, 1)[1].outcome = "fault"
    /\ PointReads(Accepted, 1)[1].resp.code = 4
    /\ \E j \in DOMAIN out :
          /\ out[j].line = "point ERR"
          /\ out[j].out = [exception_code |-> 4]


\* The word or bit the device sent for the point a printed line is about
WordOfLine(l) == PointReads(l.cand, l.point)[1].resp.raw

\* The entry carries a packed-bit or a bitfield selector
HasSelector(p) == "bit" \in DOMAIN p \/ "bitfield" \in DOMAIN p

\* C15: the decode mode is a total, mutually exclusive function of the
\* address space and of the fields present. A coil or discrete point always
\* decodes as the direct 0/1 of its bit, with no bit, bitfield or scaled
\* field, even when bit, bitfield, scale or dataType are present; a holding
\* or input point with bit or bitfield decodes as that packed bit or
\* bitfield and never as a scaled number, even when scale or dataType are
\* present; only a holding or input point with neither decodes as a scaled
\* number. A definition error is reported only in the packed mode, and a
\* point outside the four spaces is never decoded.
C15_DecodeModeBySpaceAndFields ==
    \A j \in DOMAIN out :
        out[j].line \in {"point", "point ERR"} =>
            LET p == args.cfg_points[out[j].point]
                o == out[j].out
                space == SpaceOf(p)
            IN  /\ out[j].line = "point" =>
                      CASE space \in {"coils", "discrete"} ->
                             /\ DOMAIN o = {"kind", "offset", "value"}
                             /\ o.value = IF WordOfLine(out[j]) # 0 THEN 1 ELSE 0
                        [] space \in {"holding", "input"} /\ HasSelector(p) ->
                             /\ DOMAIN o \cap {"scaled", "raw", "scale"} = {}
                             /\ DOMAIN o \cap {"bit", "bitfield"} # {}
                             /\ "bit" \in DOMAIN o =>
                                   /\ "bit" \in DOMAIN p
                                   /\ o.value = get_bit(WordOfLine(out[j]), p.bit)
                             /\ "bitfield" \in DOMAIN o =>
                                   /\ "bitfield" \in DOMAIN p
                                   /\ o.value = get_bitfield(WordOfLine(out[j]),
                                                   p.bitfield.start, p.bitfield.len)
                        [] space \in {"holding", "input"} /\ ~HasSelector(p) ->
                             /\ DOMAIN o \cap {"bit", "bitfield", "value"} = {}
                             /\ {"scaled", "raw", "scale"} \subseteq DOMAIN o
                        [] OTHER -> FALSE
                /\ "invalid" \in DOMAIN o =>
                      space \in {"holding", "input"} /\ HasSelector(p)

\* A coil entry that also carries bit, bitfield, dataType, scale and offset
\* has been decoded as the plain 1 of its set coil
C15_Witness ==
    /\ args.niagara
    /\ args.cfg_points = <<PCoilAll>>
    /\ \E j \in DOMAIN out :
          /\ out[j].line = "point"
          /\ out[j].out = [kind |-> "coils", offset |-> 1, value |-> 1]


\* The printed values of the register points that carry both bit and bitfield
BothLines ==
    {j \in DOMAIN out :
        /\ out[j].line = "point"
        /\ SpaceOf(args.cfg_points[out[j].point]) \in {"holding", "input"}
        /\ {"bit", "bitfield"} \subseteq DOMAIN args.cfg_points[out[j].point]}

\* C16 (as claimed): a register point that carries both bit and bitfield is
\* decoded as a bitfield, value = (raw >> start) & mask, not as a packed bit.
C16_BitfieldWinsOverBit ==
    \A j \in BothLines :
        LET p == args.cfg_points[out[j].point]
        IN  /\ "bitfield" \in DOMAIN out[j].out
            /\ "bit" \notin DOMAIN out[j].out
            /\ out[j].out.value =
                  get_bitfield(WordOfLine(out[j]), p.bitfield.start, p.bitfield.len)

\* C16 (amended): a register point that carries both bit and bitfield is
\* decoded as a packed bit, value = (raw >> bit) & 1; the bitfield and its
\* enum are not looked at.
C16_BitWinsOverBitfield ==
    \A j \in BothLines :
        LET p == args.cfg_points[out[j].point]
        IN  /\ "bit" \in DOMAIN out[j].out
            /\ DOMAIN out[j].out \cap {"bitfield", "label"} = {}
            /\ out[j].out.bit = p.bit
            /\ out[j].out.value = get_bit(WordOfLine(out[j]), p.bit)

\* The point with bit 3 and bitfield (4, 3) read the word 48, whose bit 3 is
\* 0 and whose bitfield is 3, and has been printed with the value 0
C16_Witness ==
    /\ args.cfg_points = <<PBoth>>
    /\ BothLines # {}
    /\ \A j \in BothLines : WordOfLine(out[j]) = 48 /\ out[j].out.value = 0


\* C17 (as claimed): a point whose dataType is neither int16 nor uint16 is
\* reported as a definition error; it is never printed as a decoded value.
C17_UnknownDataTypeRejected ==
    \A j \in DOMAIN out :
        LET p == args.cfg_points[out[j].point]
        IN  (/\ out[j].line \in PointLineKinds
             /\ "dataType" \in DOMAIN p
             /\ p.dataType \notin {"int16", "uint16"}) => out[j].line # "point"


\* The first display address of the band of a space
BandBase(space) ==
    CASE space = "holding" -> 40001
      [] space = "input" -> 30001
      [] space = "discrete" -> 10001
      [] space = "coils" -> 1

\* C18: with normalization enabled, for every k in 0..9998 the display
\* address base + k of a space (40001 holding, 30001 input, 10001 discrete,
\* 1 coils) is read at offset k of that same space: the offset lies in
\* 0..9998 and adding the base gives the address back, so distinct in-band
\* addresses of a space are read at distinct offsets; the space is never
\* changed, in band or out of it.
C18_InBandNormalizationInvertible ==
    \A i \in DOMAIN reads :
        reads[i].phase = "points" =>
            LET p == args.cfg_points[reads[i].point]
                k == p.address - BandBase(p.kind)
            IN  /\ reads[i].kind = p.kind
                /\ k \in 0..9998 =>
                      /\ reads[i].addr = k
                      /\ reads[i].addr + BandBase(p.kind) = p.address
                      /\ normalize_address(p.kind, p.address, TRUE) = <<p.kind, k>>

\* The last display address of the holding band has been read at offset 9998
C18_Witness ==
    /\ args.niagara
    /\ args.cfg_points = <<AddrPoint("holding", 49999)>>
    /\ Len(PointReads(Accepted, 1)) = 1
    /\ PointReads(Accepted, 1)[1].kind = "holding"
    /\ PointReads(Accepted, 1)[1].addr = 9998


\* The coil display addresses tried above the band
CoilsAbove == 10000..(9999 + MaxAbove)

\* C19 (as claimed): under the --niagara of the run, some coil address above
\* 9999 and some coil address in 1..9999 are normalized to the same offset.
C19_CoilAboveBandCollides ==
    \E a \in CoilsAbove : \E b \in 1..9999 :
        normalize_address("coils", a, args.niagara)
            = normalize_address("coils", b, args.niagara)

\* C19 (amended): with normalization enabled, a coil address above 9999 is
\* read at that very address, which is the offset of no coil address in
\* 1..9999 (those are read at 0..9998); the coil address outside the band
\* that does collide is 0, read at offset 0 like the address 1.
C19_CoilOutOfBandPassThrough ==
    \A i \in DOMAIN reads :
        LET p == args.cfg_points[reads[i].point]
        IN  (reads[i].phase = "points" /\ p.kind = "coils") =>
              /\ p.address \in 1..9999 => reads[i].addr \in 0..9998
              /\ p.address > 9999 =>
                    /\ reads[i].addr = p.address
                    /\ \A b \in 1..9999 :
                          normalize_address("coils", b, TRUE)[2] # reads[i].addr
              /\ p.address = 0 =>
                    /\ reads[i].addr = 0
                    /\ normalize_address("coils", 1, TRUE) = <<"coils", reads[i].addr>>

\* The coil address 10000 has been read at offset 10000
C19_Witness ==
    /\ args.niagara
    /\ args.cfg_points = <<AddrPoint("coils", 10000)>>
    /\ Len(PointReads(Accepted, 1)) = 1
    /\ PointReads(Accepted, 1)[1].kind = "coils"
    /\ PointReads(Accepted, 1)[1].addr = 10000


\* The integer a 16-bit word stands for under a dataType
Reinterpreted(w, dt) == IF dt = "int16" /\ w >= 32768 THEN w - 65536 ELSE w

\* C20: the scaled decode reinterprets the raw word before scaling. For
\* every word w in 0..65535 a point of dataType int16 is printed with raw = w
\* if w < 32768 and w - 65536 otherwise, always within -32768..32767, a point
\* of dataType uint16 with raw = w; the printed scaled value is that integer
\* times scale plus offset.
C20_ReinterpretThenScale ==
    \A j \in DOMAIN out :
        out[j].line = "point" =>
            LET p == args.cfg_points[out[j].point]
                w == WordOfLine(out[j])
                n == Reinterpreted(w, p.dataType)
            IN  (DecodeMode(p, SpaceOf(p)) = "scaled"
                 /\ "dataType" \in DOMAIN p /\ p.dataType \in {"int16", "uint16"}) =>
                   /\ w \in 0..65535
                   /\ out[j].out.raw = n
                   /\ p.dataType = "int16" => n \in (-32768)..32767
                   /\ p.dataType = "uint16" => n = w
                   /\ out[j].out.scaled = n * p.scale + p.offset

\* The word 0xFFFF of an int16 point with scale 2 and offset 1 has been
\* printed as raw -1, scaled -1
C20_Witness ==
    /\ args.cfg_points = <<PScaled>>
    /\ device.words = {65535}
    /\ \E j \in DOMAIN out :
          /\ out[j].line = "point"
          /\ WordOfLine(out[j]) = 65535
          /\ out[j].out.raw = -1
          /\ out[j].out.scaled = -1


\* v is the field of length bits that the word w holds from bit start on:
\* w is some high part, then v, then the start low bits of w
IsFieldOf(v, w, start, length) ==
    /\ v \in 0..(2 ^ length - 1)
    /\ (w - v * 2 ^ start - (w % 2 ^ start)) % (2 ^ (start + length)) = 0

\* C21: bit extraction matches the shift-and-mask reference for every word.
\* A packed-bit point with bit b in 0..15 is printed with the value
\* (raw >> b) & 1, a bitfield point with start + length <= 16 with the value
\* (raw >> start) & (2^length - 1), which lies in 0..2^length - 1: the
\* printed value is the one field of the word at that position.
C21_BitsMatchShiftAndMask ==
    \A j \in DOMAIN out :
        out[j].line = "point" =>
            LET p == args.cfg_points[out[j].point]
                w == WordOfLine(out[j])
                o == out[j].out
            IN  /\ "bit" \in DOMAIN o =>
                      /\ o.raw_u16 = w
                      /\ o.value \in {0, 1}
                      /\ IsFieldOf(o.value, w, p.bit, 1)
                /\ "bitfield" \in DOMAIN o =>
                      /\ o.raw_u16 = w
                      /\ o.value \in 0..(2 ^ p.bitfield.len - 1)
                      /\ IsFieldOf(o.value, w, p.bitfield.start, p.bitfield.len)

\* The word 48 of the bitfield point with start 4 and length 3 has been
\* printed with the value 3
C21_Witness ==
    /\ args.cfg_points = <<FieldPoint(4, 3)>>
    /\ device.words = {48}
    /\ \E j \in DOMAIN out :
          /\ out[j].line = "point"
          /\ WordOfLine(out[j]) = 48
          /\ out[j].out.value = 3


\* The smoke test recorded that connect() returned False
ConnectFailed == results # <<>> /\ results[1] = [name |-> "Connect", ok |-> FALSE]

\* C22: the check run of the smoke test (without --expect-stopped) exits
\* with status 0 exactly when it recorded test results and every one of them
\* passed. A run that found the port closed exits with status 1 (it records
\* nothing and creates no client), and so does a run whose connect() returned
\* False; after a failed connect no test issues a read or a write, during the
\* run and at its end.
C22_ExitStatusReflectsResults ==
    ~sargs.expect_stopped =>
        /\ spc = "exited" =>
              /\ status \in {<<0>>, <<1>>}
              /\ status = <<0>> <=>
                    (results # <<>> /\ \A i \in DOMAIN results : results[i].ok)
        /\ (/\ spc = "exited"
            /\ sclient = "none"
            /\ Len(sargs.hr_offsets) = Len(sargs.hr_values)) =>
              status = <<1>> /\ slog = <<>>
        /\ ConnectFailed =>
              /\ slog = <<>>
              /\ spc \in {"report", "exited"}
              /\ spc = "exited" => status = <<1>>

\* connect() returned False, and the run has exited with status 1 without
\* any read or write
C22_Witness ==
    /\ ~sargs.expect_stopped
    /\ ConnectFailed
    /\ spc = "exited"
    /\ status = <<1>>
    /\ slog = <<>>

\* The result of the unmapped-address test, once recorded
UnmappedRecorded ==
    /\ results # <<>>
    /\ Last(results).name = "Unmapped registers -> exception code 2"

\* C23: the simulated device answers a read and a single-register write of a
\* holding offset outside its mapped region with an exception response of
\* code 2, never with data or an acknowledgement; and against any server the
\* unmapped-address test of the smoke test passes only (and exactly) when
\* both responses are exception responses whose code is 2.
C23_UnmappedAnswersCode2 ==
    rrwr # <<>> =>
        /\ server = "sim" =>
              /\ sargs.unmapped_read \notin SimMapped =>
                    rrwr[1] = [kind |-> "fault", code |-> 2, value |-> 0]
              /\ sargs.unmapped_write \notin SimMapped =>
                    rrwr[2] = [kind |-> "fault", code |-> 2, value |-> 0]
        /\ UnmappedRecorded =>
              (Last(results).ok <=>
                 \A i \in {1, 2} : rrwr[i].kind = "fault" /\ rrwr[i].code = 2)

\* Against the simulated device, with both offsets outside the mapped
\* region, the unmapped-address test has passed on two code-2 responses
C23_Witness ==
    /\ server = "sim"
    /\ sargs.unmapped_read \notin SimMapped
    /\ UnmappedRecorded
    /\ Last(results).ok
    /\ rrwr[1].code = 2
    /\ rrwr[2].code = 2

\* A turn of "while addr <= end" has run to its end without a return
TurnCompleted ==
    /\ pc = "disc_loop"
    /\ pc' = "disc_loop"
    /\ ki = Len(kinds)
    /\ ki' = 1

\* C24 (as claimed): discover_readable terminates for every start, end and
\* block size, zero and negative ones included. The loop is left only by a
\* return or when addr exceeds end, and addr changes only at the end of a
\* turn, by step; so the sweep terminates whatever the reads answer only if
\* every completed turn of the while loop leaves addr nearer to the exit
\* than it found it (addr grows).
C24_EveryTurnApproachesEnd ==
    [][TurnCompleted => addr' > addr]_vars

\* with step >= 1 a sweep issues at most ceil((end - start + 1) / step)
\* reads per requested space
CeilDiv(a, b) == (a + b - 1) \div b

SweepReadsBounded ==
    (args.step >= 1 /\ candidates # <<>>) =>
        Len(DiscReads(candidates[1]))
            <= CeilDiv(args.end - args.start + 1, args.step) * Len(Kinds(args.mode))

\* The number of data replies among the first n requests of rs
RECURSIVE HitsUpTo(_, _)
HitsUpTo(rs, n) ==
    IF n = 0 THEN 0
    ELSE HitsUpTo(rs, n - 1) + (IF rs[n].outcome = "ok" THEN 1 ELSE 0)

\* The sweep of the first candidate is in its while loop
Sweeping == pc = "disc_loop" /\ di = 1

\* C25: with a hit cap N >= 1 the hits recorded so far, over all spaces,
\* never exceed N, in the loop (where total_hits counts them) and in the
\* returned hit map; the read that brings the count to N is the last read
\* of the sweep, and the sweep has returned with it. With the cap disabled
\* (0) a sweep stops before the whole range is read only on a no-response:
\* every hit map returned covers all the planned reads and every read
\* outcome other than no-response leaves the sweep running or at its end.
C25_HitCapBoundsSweep ==
    candidates # <<>> =>
        LET rs == DiscReads(candidates[1])
            ks == Kinds(args.mode)
            N == StopAfterHits
        IN  /\ Sweeping => total_hits = TotalHits(hits, ks) /\ total_hits = HitsUpTo(rs, Len(rs))
            /\ N >= 1 =>
                  /\ Sweeping => total_hits < N
                  /\ (Len(d) >= 1 /\ d[1].ok) => TotalHits(d[1].hits, ks) <= N
                  /\ \A i \in DOMAIN rs :
                        HitsUpTo(rs, i) >= N =>
                            /\ i = Len(rs)
                            /\ rs[i].outcome = "ok"
                            /\ HitsUpTo(rs, i) = N
                            /\ Len(d) >= 1
                            /\ d[1] = CappedResult(d[1].hits, d[1].errors)
                            /\ TotalHits(d[1].hits, ks) = N
            /\ N = 0 =>
                  /\ (Len(d) >= 1 /\ d[1].ok) => Len(rs) = PlannedReads
                  /\ (Len(d) >= 1 /\ ~d[1].ok /\ rs # <<>>) => Last(rs).outcome = "noresp"
                  /\ (Len(rs) < PlannedReads /\ (rs = <<>> \/ Last(rs).outcome # "noresp")) =>
                        Len(d) = 0 \/ (rs = <<>> /\ ~d[1].ok)

\* The second hit of a sweep of two spaces with cap 2 came from the first
\* space of the second block: the sweep returned without reading the second
\* space there
C25_Witness ==
    /\ args.mode = "both"
    /\ StopAfterHits = 2
    /\ Len(d) = 1
    /\ d[1].ok
    /\ candidates # <<>>
    /\ LET rs == DiscReads(candidates[1])
       IN  /\ Len(rs) = 3
           /\ rs[3].kind = "holding"
           /\ rs[3].addr = args.start + args.step
           /\ Len(rs) < PlannedReads
    /\ TotalHits(d[1].hits, Kinds(args.mode)) = 2

====
